---- MODULE Spec2Model ----
(***************************************************************************)
(* Model of src/transformers/tf_utils.py: the helpers shape_list,          *)
(* functional_layernorm, flatten and invert_attention_mask.  Each helper   *)
(* is a pure function of its arguments; the state machine draws one call   *)
(* (function and arguments) in Init and the function's action runs it to   *)
(* its return value or to the exception it raises.                         *)
(*                                                                         *)
(* Python sequences are 0-based, TLA+ sequences 1-based: axis i of a shape *)
(* is shape[i + 1].  Tensor indices (the keys of a tensor's data) are kept *)
(* 0-based, as in Python.                                                  *)
(***************************************************************************)
EXTENDS Integers, Sequences, FiniteSets, TLC

VARIABLES pc, fn, args, outcome

vars == <<pc, fn, args, outcome>>

\* ---------------------------------------------------------------- bounds
MaxRank == 3        \* largest rank of an input of flatten / layernorm / shape_list
MaxDim == 3         \* largest size of one axis
MaxMaskRank == 4    \* largest rank of an attention mask
MaxMaskElems == 4   \* largest number of elements of an attention mask
MaxNormDim == 2     \* largest axis size of a layernorm input / parameter
MaxParamRank == 2   \* largest rank of a layernorm weight / bias
MaxMaskValue == 2   \* mask entries are drawn from 0..MaxMaskValue

\* ------------------------------------------------- Python / TF primitives
Min(a, b) == IF a < b THEN a ELSE b
Max(a, b) == IF a > b THEN a ELSE b

\* s[a:b] for a Python list / 1-D tensor s (step 1), negative bounds counted
\* from the end and both bounds clamped to the length.
PySlice(s, a, b) ==
    LET n  == Len(s)
        lo == IF a < 0 THEN Max(a + n, 0) ELSE Min(a, n)
        hi == IF b < 0 THEN Max(b + n, 0) ELSE Min(b, n)
    IN  IF lo >= hi THEN <<>> ELSE SubSeq(s, lo + 1, hi)

\* tf.math.reduce_prod of a 1-D integer tensor (1 for the empty tensor).
RECURSIVE reduce_prod(_)
reduce_prod(s) == IF s = <<>> THEN 1 ELSE Head(s) * reduce_prod(Tail(s))

\* tensor.shape.rank
Rank(t) == Len(t.shape)

\* number of elements of a tensor of the given shape
NumElems(shape) == reduce_prod(shape)

\* all shapes of rank rmin..rmax with axis sizes in dims
RECURSIVE ShapesOfRank(_, _)
ShapesOfRank(r, dims) ==
    IF r = 0 THEN {<<>>}
    ELSE {Append(s, d) : s \in ShapesOfRank(r - 1, dims), d \in dims}

Shapes(rmin, rmax, dims) == UNION {ShapesOfRank(r, dims) : r \in rmin..rmax}

\* a tf.Tensor whose static shape is fully known
Tensor(shape) ==
    [type |-> "Tensor", op |-> "Input", shape |-> shape,
     static |-> [rank_known |-> TRUE, known |-> 0..(Len(shape) - 1)]]

\* a normal return and a raised exception
Return(v) == [raised |-> "none", value |-> v]
Raise(e)  == [raised |-> e, value |-> <<>>]

\* tf.reshape(t, shape): fails unless the element counts agree.  The result
\* is a new tensor whose static shape is the (fully known) requested shape.
tf_reshape(t, shape) ==
    IF NumElems(shape) = NumElems(t.shape)
    THEN Return([t EXCEPT !.op = "Reshape", !.shape = shape,
                          !.static = [rank_known |-> TRUE,
                                      known |-> 0..(Len(shape) - 1)]])
    ELSE Raise("InvalidArgumentError")

\* ------------------------------------------------------------- shape_list
\* An entry of a shape list: a Python int, None (static shape only), or
\* dynamic[i], the scalar tensor that holds the size of axis i at execution
\* time.
IntEntry(n)     == [kind |-> "int", v |-> n]
NoneEntry       == [kind |-> "None", v |-> 0]
DynamicEntry(i) == [kind |-> "dynamic", v |-> i]

\* the value an entry has at execution time, given the runtime shape
EvalEntry(e, runtime) == IF e.kind = "dynamic" THEN runtime[e.v + 1] ELSE e.v

EvalShape(entries, runtime) ==
    [k \in 1..Len(entries) |-> EvalEntry(entries[k], runtime)]

\* tf.shape(tensor): the 1-D tensor holding the runtime shape
tf_shape(tensor) == [kind |-> "tf.shape", shape |-> tensor.shape]

\* mutant of dynamic_getitem: every placeholder queries axis 0
dynamic_getitem_axis0(dynamic, i) == DynamicEntry(0)

\* dynamic[i]
dynamic_getitem(dynamic, i) == DynamicEntry(i)

\* tensor.shape.as_list(): the static size of every axis, None where unknown
as_list(tensor) ==
    [k \in 1..Len(tensor.shape) |->
        IF (k - 1) \in tensor.static.known THEN IntEntry(tensor.shape[k])
        ELSE NoneEntry]

shape_list(tensor) ==
    IF tensor.type = "ndarray"
    THEN Return([k \in 1..Len(tensor.shape) |-> IntEntry(tensor.shape[k])])
    ELSE LET dynamic == tf_shape(tensor)
         IN  IF ~tensor.static.rank_known
             THEN Return(dynamic)
             ELSE LET static == as_list(tensor)
                  IN  Return([k \in 1..Len(static) |->
                                 IF static[k].kind = "None"
                                 THEN dynamic_getitem(dynamic, k - 1)
                                 ELSE static[k]])

\* the arguments of a call: a NumPy array, a tensor of unknown rank, or a
\* tensor whose static shape knows the sizes of the axes in K
ShapeListCall ==
    \E s \in Shapes(0, MaxRank, 0..MaxDim) :
        \/ args = [tensor |-> [Tensor(s) EXCEPT !.type = "ndarray"]]
        \/ args = [tensor |-> [Tensor(s) EXCEPT !.static =
                                   [rank_known |-> FALSE, known |-> {}]]]
        \/ \E K \in SUBSET (0..(Len(s) - 1)) :
              args = [tensor |-> [Tensor(s) EXCEPT !.static.known = K]]

\* --------------------------------------------------- functional_layernorm
\* isinstance(axis, int)
isinstance_int(axis) == axis.type = "int"

\* lst[i] = v and lst[i] on a Python list, i in -len..len-1
PyIndex(n, i) == IF i < 0 THEN i + n ELSE i
ListSetItem(lst, i, v) == [lst EXCEPT ![PyIndex(Len(lst), i) + 1] = v]
ListGetItem(lst, i) == lst[PyIndex(Len(lst), i) + 1]

\* shape of tf.nn.moments(inputs, axes=[axis], keepdims=True)
moments_shape(in_shape, axis) == ListSetItem(in_shape, axis, 1)

\* NumPy-style broadcasting of two shapes: right-aligned, sizes equal or 1
AlignShape(shape, r) == [k \in 1..(r - Len(shape)) |-> 1] \o shape

Broadcastable(a, b) ==
    LET r == Max(Len(a), Len(b))
    IN  \A k \in 1..r :
            \/ AlignShape(a, r)[k] = AlignShape(b, r)[k]
            \/ AlignShape(a, r)[k] = 1
            \/ AlignShape(b, r)[k] = 1

BroadcastShape(a, b) ==
    LET r == Max(Len(a), Len(b))
    IN  [k \in 1..r |-> IF AlignShape(a, r)[k] = 1 THEN AlignShape(b, r)[k]
                        ELSE AlignShape(a, r)[k]]

\* tf.nn.batch_normalization: x * inv + (offset - mean * inv) with
\* inv = rsqrt(variance + epsilon) * scale; only shapes are modelled.
tf_nn_batch_normalization(x, mean_shape, offset, scale) ==
    IF ~Broadcastable(mean_shape, scale.shape)
    THEN Raise("InvalidArgumentError")
    ELSE LET inv == BroadcastShape(mean_shape, scale.shape)
         IN  IF ~Broadcastable(x.shape, inv) \/ ~Broadcastable(offset.shape, inv)
             THEN Raise("InvalidArgumentError")
             ELSE LET y == BroadcastShape(x.shape, inv)
                      z == BroadcastShape(offset.shape, inv)
                  IN  IF ~Broadcastable(y, z)
                      THEN Raise("InvalidArgumentError")
                      ELSE Return([type |-> "Tensor", op |-> "batchnorm",
                                   shape |-> BroadcastShape(y, z),
                                   mean_shape |-> mean_shape,
                                   scale |-> scale, offset |-> offset])

\* mutant of layernorm_param_shape: the size is stored on the last axis
layernorm_param_shape_last_axis(inputs, axis) ==
    LET ones == [k \in 1..Rank(inputs) |-> IntEntry(1)]
    IN  ListSetItem(ones, -1, ListGetItem(shape_list(inputs).value, axis))

\* lines 87-88: the shape weight and bias are reshaped to when axis != -1
layernorm_param_shape(inputs, axis) ==
    LET ones == [k \in 1..Rank(inputs) |-> IntEntry(1)]
    IN  ListSetItem(ones, axis, ListGetItem(shape_list(inputs).value, axis))

\* mutant of layernorm_unsupported: the rank of bias is not checked
layernorm_unsupported_no_bias_check(weight, bias, axis) ==
    Rank(weight) /= 1 \/ ~isinstance_int(axis)

\* line 78: the condition under which NotImplementedError is raised
layernorm_unsupported(weight, bias, axis) ==
    Rank(weight) /= 1 \/ Rank(bias) /= 1 \/ ~isinstance_int(axis)

functional_layernorm(inputs, weight0, bias0, axis) ==
    IF layernorm_unsupported(weight0, bias0, axis)
    THEN Raise("NotImplementedError")
    ELSE LET mean_shape == moments_shape(inputs.shape, axis.value)
             shape  == EvalShape(layernorm_param_shape(inputs, axis.value), inputs.shape)
             weight == IF axis.value /= -1 THEN tf_reshape(weight0, shape)
                       ELSE Return(weight0)
             bias   == IF axis.value /= -1 THEN tf_reshape(bias0, shape)
                       ELSE Return(bias0)
         IN  IF weight.raised /= "none" THEN weight
             ELSE IF bias.raised /= "none" THEN bias
             ELSE tf_nn_batch_normalization(inputs, mean_shape, bias.value, weight.value)

\* weight / bias tensors: rank 0..MaxParamRank, every axis of the same size
ParamShapes ==
    {[k \in 1..r |-> n] : r \in 0..MaxParamRank, n \in 1..MaxNormDim}

AxisArgs(r) ==
    {[type |-> "int", value |-> a] : a \in -r..(r - 1)}
      \cup {[type |-> "tuple", value |-> <<0, r - 1>>],
            [type |-> "list", value |-> <<r - 1>>],
            [type |-> "NoneType", value |-> <<>>]}

LayernormCall ==
    \E s \in Shapes(1, MaxRank, 1..MaxNormDim), w \in ParamShapes, b \in ParamShapes :
        \E ax \in AxisArgs(Len(s)) :
            args = [inputs |-> Tensor(s), weight |-> Tensor(w), bias |-> Tensor(b),
                    axis |-> ax]

\* ---------------------------------------------------------------- flatten
\* mutant of ResolveDim: a negative dim is left as it is
ResolveDim_unresolved(dim, rank) == dim

\* lines 109-112: a negative dim counts from the end
ResolveDim(dim, rank) == IF dim < 0 THEN dim + rank ELSE dim

\* mutant of flatten_out_shape: end_dim is treated as exclusive
flatten_out_shape_exclusive_end(in_shape, start_dim, end_dim) ==
    LET flattened_dim == reduce_prod(PySlice(in_shape, start_dim, end_dim))
    IN  PySlice(in_shape, 0, start_dim) \o <<flattened_dim>>
          \o PySlice(in_shape, end_dim, Len(in_shape))

\* lines 117-119: the shape handed to tf.reshape
flatten_out_shape(in_shape, start_dim, end_dim) ==
    LET flattened_dim == reduce_prod(PySlice(in_shape, start_dim, end_dim + 1))
    IN  PySlice(in_shape, 0, start_dim) \o <<flattened_dim>>
          \o PySlice(in_shape, end_dim + 1, Len(in_shape))

flatten(input, start_dim0, end_dim0) ==
    LET end_dim   == ResolveDim(end_dim0, Rank(input))
        start_dim == ResolveDim(start_dim0, Rank(input))
    IN  IF start_dim = end_dim
        THEN Return(input)
        ELSE tf_reshape(input, flatten_out_shape(input.shape, start_dim, end_dim))

\* start_dim and end_dim range over the dims the rank of input allows
FlattenCall ==
    \E s \in Shapes(1, MaxRank, 0..MaxDim) :
        \E a \in -Len(s)..(Len(s) - 1), b \in -Len(s)..(Len(s) - 1) :
            args = [input |-> Tensor(s), start_dim |-> a, end_dim |-> b]

\* -------------------------------------------------- invert_attention_mask
DTypes == {"int8", "int16", "uint8", "float16"}

dtype_is_integer(dtype) == dtype \in {"int8", "int16", "uint8"}

\* dtype.min: the lowest finite value of the type
dtype_min(dtype) ==
    CASE dtype = "int8"    -> -128
      [] dtype = "int16"   -> -32768
      [] dtype = "uint8"   -> 0
      [] dtype = "float16" -> -65504

dtype_max(dtype) ==
    CASE dtype = "int8"    -> 127
      [] dtype = "int16"   -> 32767
      [] dtype = "uint8"   -> 255
      [] dtype = "float16" -> 65504

\* The value an arithmetic result v has in the type: integer types wrap
\* modulo 2^w; float16 holds every integer of magnitude up to 2048 and
\* +-65504 exactly, which covers every value computed here.
Wrap(dtype, v) ==
    IF dtype_is_integer(dtype)
    THEN LET span == dtype_max(dtype) - dtype_min(dtype) + 1
         IN  ((v - dtype_min(dtype)) % span) + dtype_min(dtype)
    ELSE v

tf_cast(v, dtype) == Wrap(dtype, v)
Sub(dtype, a, b) == Wrap(dtype, a - b)
Mul(dtype, a, b) == Wrap(dtype, a * b)

\* the index tuples (0-based) of a tensor of the given shape
RECURSIVE Indices(_)
Indices(shape) ==
    IF shape = <<>> THEN {<<>>}
    ELSE {<<i>> \o rest : i \in 0..(Head(shape) - 1), rest \in Indices(Tail(shape))}

\* t[spec] where every item of spec is ":" (keep the next axis of t) or
\* None (insert an axis of size 1)
RECURSIVE KeptAxes(_, _)
KeptAxes(idx, spec) ==
    IF spec = <<>> THEN <<>>
    ELSE IF Head(spec) = ":" THEN <<Head(idx)>> \o KeptAxes(Tail(idx), Tail(spec))
    ELSE KeptAxes(Tail(idx), Tail(spec))

\* mutant of getitem: the index items are applied in reverse order
getitem_reversed(t, spec) ==
    LET rev     == [k \in 1..Len(spec) |-> spec[Len(spec) + 1 - k]]
        kept(k) == Cardinality({j \in 1..k : rev[j] = ":"})
        shape   == [k \in 1..Len(rev) |->
                       IF rev[k] = ":" THEN t.shape[kept(k)] ELSE 1]
    IN  [t EXCEPT !.op = "StridedSlice", !.shape = shape,
                  !.data = [idx \in Indices(shape) |-> t.data[KeptAxes(idx, rev)]]]

getitem(t, spec) ==
    LET kept(k) == Cardinality({j \in 1..k : spec[j] = ":"})
        shape   == [k \in 1..Len(spec) |->
                       IF spec[k] = ":" THEN t.shape[kept(k)] ELSE 1]
    IN  [t EXCEPT !.op = "StridedSlice", !.shape = shape,
                  !.data = [idx \in Indices(shape) |-> t.data[KeptAxes(idx, spec)]]]

\* tf.convert_to_tensor of a NumPy array: same shape, dtype and values
tf_convert_to_tensor(a) == [a EXCEPT !.type = "Tensor", !.op = "Const"]

\* mutant of invert_element: the mask is not inverted before scaling
invert_element_not_inverted(dtype, m) == Mul(dtype, m, dtype_min(dtype))

\* lines 144-146 for one element
invert_element(dtype, m) == Mul(dtype, Sub(dtype, tf_cast(1, dtype), m), dtype_min(dtype))

\* mutant of invert_attention_mask: other ranks fall back to the mask itself
invert_attention_mask_fallback(arg) ==
    LET encoder_attention_mask ==
            IF arg.type /= "Tensor" THEN tf_convert_to_tensor(arg) ELSE arg
        ext == IF Rank(encoder_attention_mask) = 3
               THEN getitem(encoder_attention_mask, <<":", "None", ":", ":">>)
               ELSE IF Rank(encoder_attention_mask) = 2
               THEN getitem(encoder_attention_mask, <<":", "None", "None", ":">>)
               ELSE encoder_attention_mask
    IN  Return([ext EXCEPT !.op = "Mul",
                   !.data = [idx \in DOMAIN ext.data |->
                                invert_element(ext.dtype, ext.data[idx])]])

\* A local variable is the set of its value: empty while unbound.
invert_attention_mask(arg) ==
    LET encoder_attention_mask ==
            IF arg.type /= "Tensor" THEN tf_convert_to_tensor(arg) ELSE arg
        ext3 == IF Rank(encoder_attention_mask) = 3
                THEN {getitem(encoder_attention_mask, <<":", "None", ":", ":">>)}
                ELSE {}
        ext2 == IF Rank(encoder_attention_mask) = 2
                THEN {getitem(encoder_attention_mask, <<":", "None", "None", ":">>)}
                ELSE ext3
    IN  IF ext2 = {}
        THEN Raise("UnboundLocalError")
        ELSE LET ext == CHOOSE t \in ext2 : TRUE
             IN  Return([ext EXCEPT !.op = "Mul",
                            !.data = [idx \in DOMAIN ext.data |->
                                         invert_element(ext.dtype, ext.data[idx])]])

MaskShapes ==
    {s \in Shapes(0, MaxMaskRank, 0..MaxDim) : NumElems(s) <= MaxMaskElems}

MaskCall ==
    \E s \in MaskShapes, ty \in {"Tensor", "ndarray"}, dt \in DTypes :
        \E d \in [Indices(s) -> 0..MaxMaskValue] :
            args = [encoder_attention_mask |->
                       [type |-> ty, op |-> "Input", shape |-> s, dtype |-> dt,
                        data |-> d]]

\* ------------------------------------------------------------ the machine
Init ==
    /\ pc = "call"
    /\ outcome = Return(<<>>)
    /\ \/ fn = "shape_list" /\ ShapeListCall
       \/ fn = "functional_layernorm" /\ LayernormCall
       \/ fn = "flatten" /\ FlattenCall
       \/ fn = "invert_attention_mask" /\ MaskCall

Finish(result) ==
    /\ outcome' = result
    /\ pc' = IF result.raised = "none" THEN "returned" ELSE "raised"
    /\ UNCHANGED <<fn, args>>

shape_list_call ==
    /\ pc = "call" /\ fn = "shape_list"
    /\ Finish(shape_list(args.tensor))

functional_layernorm_call ==
    /\ pc = "call" /\ fn = "functional_layernorm"
    /\ Finish(functional_layernorm(args.inputs, args.weight, args.bias, args.axis))

flatten_call ==
    /\ pc = "call" /\ fn = "flatten"
    /\ Finish(flatten(args.input, args.start_dim, args.end_dim))

invert_attention_mask_call ==
    /\ pc = "call" /\ fn = "invert_attention_mask"
    /\ Finish(invert_attention_mask(args.encoder_attention_mask))

Next ==
    \/ shape_list_call
    \/ functional_layernorm_call
    \/ flatten_call
    \/ invert_attention_mask_call

Spec == Init /\ [][Next]_vars

\* ------------------------------------------------------------- properties
\* the call of f has run to its return or its exception
Called(f) == fn = f /\ pc /= "call"

\* the axis (0-based) a dim in -r..r-1 names
AxisOf(dim, r) == (dim + r) % r

\* product of shape[lo..hi] (1-based, 1 when lo > hi)
RECURSIVE ProdAxes(_, _, _)
ProdAxes(shape, lo, hi) ==
    IF lo > hi THEN 1 ELSE shape[lo] * ProdAxes(shape, lo + 1, hi)

\* C1: when the resolved start_dim is below the resolved end_dim, flatten
\* returns a tensor whose shape is the input's axes before start, one axis
\* of the product of the sizes of axes start..end, and the axes after end.
C1_FlattenCollapsesRange ==
    Called("flatten") =>
        LET in == args.input.shape
            r  == Len(in)
            S  == AxisOf(args.start_dim, r)
            E  == AxisOf(args.end_dim, r)
        IN  S < E =>
              /\ pc = "returned"
              /\ outcome.value.shape =
                    [k \in 1..(r - (E - S)) |->
                        IF k <= S THEN in[k]
                        ELSE IF k = S + 1 THEN ProdAxes(in, S + 1, E + 1)
                        ELSE in[k + (E - S)]]

C1_Witness ==
    /\ Called("flatten") /\ pc = "returned"
    /\ args.input.shape = <<2, 3, 2>>
    /\ args.start_dim = 1 /\ args.end_dim = -1
    /\ outcome.value.shape = <<2, 6>>

\* C6: when the resolved start_dim equals the resolved end_dim, flatten
\* returns the input tensor itself: same shape, not the output of a reshape.
C6_FlattenSingleAxisIsIdentity ==
    Called("flatten") =>
        LET r == Rank(args.input)
        IN  AxisOf(args.start_dim, r) = AxisOf(args.end_dim, r) =>
              /\ pc = "returned"
              /\ outcome.value = args.input
              /\ outcome.value.op /= "Reshape"

C6_Witness ==
    /\ Called("flatten") /\ pc = "returned"
    /\ args.input.shape = <<2, 3, 1>>
    /\ args.start_dim = -1 /\ args.end_dim = 2
    /\ outcome.value = args.input

\* C10: whenever flatten returns a tensor, it has as many elements as the
\* input and at most as many axes.
C10_FlattenNeverAddsAxes ==
    (Called("flatten") /\ pc = "returned") =>
        /\ NumElems(outcome.value.shape) = NumElems(args.input.shape)
        /\ Rank(outcome.value) <= Rank(args.input)

\* the index of the mask entry that element idx of the rank-4 result is
\* computed from
MaskIndex(idx, r) ==
    IF r = 2 THEN <<idx[1], idx[4]>> ELSE <<idx[1], idx[3], idx[4]>>

\* C2: a rank-2 mask (batch, sequence) gives a result of shape
\* (batch, 1, 1, sequence), a rank-3 mask (batch, sequence_q, sequence_k) one
\* of shape (batch, 1, sequence_q, sequence_k), and every element of the
\* result is computed from the mask entry at the same batch/sequence indices.
C2_MaskExpandsToRank4 ==
    Called("invert_attention_mask") =>
        LET m == args.encoder_attention_mask
            r == Rank(m)
        IN  r \in {2, 3} =>
              /\ pc = "returned"
              /\ outcome.value.shape =
                    IF r = 2 THEN <<m.shape[1], 1, 1, m.shape[2]>>
                    ELSE <<m.shape[1], 1, m.shape[2], m.shape[3]>>
              /\ DOMAIN outcome.value.data = Indices(outcome.value.shape)
              /\ \A idx \in DOMAIN outcome.value.data :
                    outcome.value.data[idx] =
                        invert_element(m.dtype, m.data[MaskIndex(idx, r)])

C2_Witness ==
    /\ Called("invert_attention_mask") /\ pc = "returned"
    /\ args.encoder_attention_mask.shape = <<1, 2, 2>>
    /\ args.encoder_attention_mask.data[<<0, 0, 1>>] = 0
    /\ args.encoder_attention_mask.data[<<0, 1, 0>>] = 1
    /\ args.encoder_attention_mask.dtype = "float16"
    /\ outcome.value.shape = <<1, 1, 2, 2>>
    /\ outcome.value.data[<<0, 0, 0, 1>>] = -65504
    /\ outcome.value.data[<<0, 0, 1, 0>>] = 0

\* C3: for a rank-2 or rank-3 mask of zeros and ones, every element of the
\* result is (1 - m) * dtype.min without overflow: 0 where the mask entry is
\* 1 and the type's lowest value where it is 0.
C3_InvertedValues ==
    Called("invert_attention_mask") =>
        LET m == args.encoder_attention_mask
            r == Rank(m)
        IN  (r \in {2, 3} /\ \A i \in DOMAIN m.data : m.data[i] \in {0, 1}) =>
              /\ pc = "returned"
              /\ \A idx \in DOMAIN outcome.value.data :
                    LET e == m.data[MaskIndex(idx, r)]
                    IN  /\ outcome.value.data[idx] = (1 - e) * dtype_min(m.dtype)
                        /\ e = 1 => outcome.value.data[idx] = 0
                        /\ e = 0 => outcome.value.data[idx] = dtype_min(m.dtype)

C3_Witness ==
    /\ Called("invert_attention_mask") /\ pc = "returned"
    /\ args.encoder_attention_mask.shape = <<1, 3>>
    /\ args.encoder_attention_mask.dtype = "int8"
    /\ args.encoder_attention_mask.data[<<0, 0>>] = 1
    /\ args.encoder_attention_mask.data[<<0, 1>>] = 1
    /\ args.encoder_attention_mask.data[<<0, 2>>] = 0
    /\ outcome.value.data[<<0, 0, 0, 0>>] = 0
    /\ outcome.value.data[<<0, 0, 0, 1>>] = 0
    /\ outcome.value.data[<<0, 0, 0, 2>>] = -128

\* C5: a mask whose rank is neither 2 nor 3 makes the call fail with the
\* undefined-variable error; no tensor is returned.
C5_OtherRanksAreUnbound ==
    Called("invert_attention_mask") =>
        (Rank(args.encoder_attention_mask) \notin {2, 3} =>
            /\ pc = "raised"
            /\ outcome.raised = "UnboundLocalError")

C5_Witness ==
    /\ Called("invert_attention_mask")
    /\ Rank(args.encoder_attention_mask) = 4
    /\ NumElems(args.encoder_attention_mask.shape) > 0
    /\ pc = "raised" /\ outcome.raised = "UnboundLocalError"

\* C4: functional_layernorm raises NotImplementedError, with nothing
\* computed, exactly when weight is not rank 1, bias is not rank 1 or axis is
\* not an int.
C4_LayernormUnsupported ==
    Called("functional_layernorm") =>
        /\ outcome.raised = "NotImplementedError" <=>
              \/ Len(args.weight.shape) /= 1
              \/ Len(args.bias.shape) /= 1
              \/ args.axis.type /= "int"
        /\ outcome.raised = "NotImplementedError" =>
              (pc = "raised" /\ outcome.value = <<>>)

C4_Witness ==
    /\ Called("functional_layernorm")
    /\ Len(args.weight.shape) = 1 /\ Len(args.bias.shape) = 2
    /\ args.axis.type = "int"
    /\ outcome.raised = "NotImplementedError"

\* C7: with rank-1 weight and bias and an int axis, the scale and offset
\* handed to the normalization broadcast along axis: for an axis other than
\* -1 both have the rank of inputs, the size of inputs along axis at
\* position axis and 1 elsewhere; for axis -1 both keep their rank-1 shape,
\* which broadcasts along the last axis.
C7_LayernormParamsBroadcastAlongAxis ==
    (Called("functional_layernorm") /\ pc = "returned") =>
        LET in == args.inputs.shape
            r  == Len(in)
            A  == AxisOf(args.axis.value, r)
            along(n) == [k \in 1..r |-> IF k = A + 1 THEN n ELSE 1]
        IN  /\ args.axis.value /= -1 =>
                /\ outcome.value.scale.shape = along(in[A + 1])
                /\ outcome.value.offset.shape = along(in[A + 1])
            /\ A = r - 1 =>
                /\ AlignShape(outcome.value.scale.shape, r) = along(args.weight.shape[1])
                /\ AlignShape(outcome.value.offset.shape, r) = along(args.bias.shape[1])

C7_Witness ==
    /\ Called("functional_layernorm") /\ pc = "returned"
    /\ args.inputs.shape = <<1, 2, 1>>
    /\ args.axis.value = -2
    /\ outcome.value.scale.shape = <<1, 2, 1>>
    /\ outcome.value.offset.shape = <<1, 2, 1>>

\* C8: shape_list returns the sizes as ints for a NumPy array, the dynamic
\* shape handle for a tensor of unknown rank, and otherwise one entry per
\* axis: the static size where it is known, the execution-time placeholder
\* of that same axis where it is not.
C8_ShapeList ==
    Called("shape_list") =>
        LET t == args.tensor
        IN  /\ pc = "returned"
            /\ t.type = "ndarray" =>
                  outcome.value = [k \in 1..Len(t.shape) |-> [kind |-> "int", v |-> t.shape[k]]]
            /\ (t.type = "Tensor" /\ ~t.static.rank_known) =>
                  outcome.value = [kind |-> "tf.shape", shape |-> t.shape]
            /\ (t.type = "Tensor" /\ t.static.rank_known) =>
                  /\ Len(outcome.value) = Len(t.shape)
                  /\ \A k \in 1..Len(t.shape) :
                        IF (k - 1) \in t.static.known
                        THEN outcome.value[k] = [kind |-> "int", v |-> t.shape[k]]
                        ELSE outcome.value[k] = [kind |-> "dynamic", v |-> k - 1]

C8_Witness ==
    /\ Called("shape_list") /\ pc = "returned"
    /\ args.tensor.type = "Tensor" /\ args.tensor.static.rank_known
    /\ args.tensor.shape = <<2, 3>> /\ args.tensor.static.known = {0}
    /\ outcome.value = <<[kind |-> "int", v |-> 2], [kind |-> "dynamic", v |-> 1]>>
====
